---------------------------- MODULE Spec2Model ----------------------------
(***************************************************************************)
(* The KSP autopilot script (src/code.py): main() as a sequential state    *)
(* machine, with the kRPC game process as the environment.  Every          *)
(* telemetry poll, timer and remote failure is a nondeterministic choice.  *)
(*                                                                         *)
(* Units: altitudes in metres; propellant quantities and pitch/heading     *)
(* angles in tenths (fuel 0.1 is 1, fuel 100 is 1000, pitch 15.0 is 150,   *)
(* the 0.3 degree decrement is 3); throttle in tenths (1.0 is 10).         *)
(***************************************************************************)
EXTENDS Integers, Sequences, FiniteSets, TLC

VARIABLES
    pc,             \* position of main()
    conn,           \* the kRPC connection: "none", "open", "failed", "closed"
    logged,         \* kinds of event-log lines written so far (DualLogger.log)
    streams,        \* number of telemetry streams subscribed (conn.add_stream)
    recorder,       \* flight_data_logger: "none" (None), "ok", "failed" (left None)
    rows,           \* data rows appended to inf.txt, each a tuple of field names
    dataErrors,     \* samples whose failure log_data caught and printed
    statuses,       \* status annotations appended to inf.txt (log_status)
    closes,         \* calls of FlightDataLogger.close
    releases,       \* calls of conn.close
    acts,           \* actuator commands issued, in order
    throttle,       \* last commanded throttle, -1 before the first
    sas,            \* vessel.control.sas
    sasMode,        \* vessel.control.sas_mode
    apEngaged,      \* vessel.auto_pilot engaged
    apTarget,       \* last target_pitch_and_heading, <<>> before the first
    phases,         \* mission phases entered, in order
    polled,         \* the last reading of a polling loop's condition
    fuel_warnings,  \* main's fuel_warnings
    target_pitch,   \* main's target_pitch
    entry_pitch,    \* the pitch read at line 317
    steers,         \* pitch readings above 15 degrees fed to the ascent loop
    fuelReads,      \* fuel readings of the ascent loop, while it runs
    advisories,     \* low-propellant advisories logged
    panelIdx,       \* next panel of vessel.parts.solar_panels to visit
    panelsFed,      \* panels visited, by kind: [ok, fixed, fault]
    solar_count,    \* main's solar_count
    panelErrors,    \* panel failures logged
    fuel_empty,     \* main's fuel_empty
    lastProp,       \* the last propellant reading of the burn loop, <<fuel, oxidizer>>
    propLowSeen,    \* the burn loop was fed a fuel or oxidizer reading of 0.1 or less
    final_peri,     \* main's final_peri
    outcomes,       \* outcome classes logged by the result analysis
    tankLow         \* the vessel held 0.1 or less of fuel or oxidizer when the
                    \* burn loop last consulted it (poll or propellant read)

vars == <<pc, conn, logged, streams, recorder, rows, dataErrors, statuses,
          closes, releases, acts, throttle, sas, sasMode, apEngaged, apTarget,
          phases, polled, fuel_warnings, target_pitch, entry_pitch, steers,
          fuelReads, advisories, panelIdx, panelsFed, solar_count, panelErrors,
          fuel_empty, lastProp, propLowSeen, final_peri, outcomes, tankLow>>

\* Everything but the position, the phase log and the actuators.
recVars == <<rows, dataErrors, statuses, closes>>
actVars == <<acts, throttle, sas, sasMode, apEngaged, apTarget>>
ascentVars == <<fuel_warnings, target_pitch, entry_pitch, steers, fuelReads, advisories>>
panelVars == <<panelIdx, panelsFed, solar_count, panelErrors>>
endVars == <<fuel_empty, lastProp, propLowSeen, final_peri, outcomes, tankLow>>

---------------------------------------------------------------------------
\* Bounds of the model.
MaxSamples == 2
MaxAscentIters == 3
NumPanels == 2

\* Program constants.
TurnAltitude == 10000
TargetApoapsis == 80000
CoastAltitude == 78000
TargetPeriapsis == 75000
ReportWindow == 5000
OrbitPeriapsis == 70000
PrecisionLow == 74000
PrecisionHigh == 76000
LowFuel == 1000
VeryLowFuel == 500
EmptyPropellant == 1
SteerPitch == 150
PitchStep == 3
TurnPitch == 700
TurnHeading == 900
FullThrottle == 10
ZeroThrottle == 0
RecorderStreams == 8
MainStreams == 5

\* Telemetry the environment may return.
GravityAltVals == {0, 9999, 10000, 10001}
ApoVals == {79999, 80000, 80001}
CoastAltVals == {70000, 77999, 78000}
PeriVals == {74999, 75000, 76000}
FinalPeriVals == {-1, 0, 69999, 70000, 73999, 74000, 76000, 76001}
PitchVals == {150, 160}
EntryPitchVals == {700}
HeadingVals == {900}
AscentFuelVals == {1500, 900, 400}
BurnPropVals == {<<2, 2>>, <<1, 2>>, <<2, 1>>, <<0, 2>>}

---------------------------------------------------------------------------
\* FlightDataLogger

\* The column titles written by _init_file.
Headers == <<"time", "altitude", "speed", "vertical_speed", "horizontal_speed",
             "apoapsis", "periapsis", "pitch", "heading", "fuel", "oxidizer">>

\* The remote reads of log_data, in the order made.
SampleReads == <<"altitude", "speed", "vertical_speed", "horizontal_speed",
                 "apoapsis", "periapsis", "pitch", "heading", "fuel", "oxidizer">>

\* data_line of log_data: the row's fields in the order joined.
DataLine == <<"time", "altitude", "speed", "vertical_speed", "horizontal_speed",
              "apoapsis", "periapsis", "pitch", "heading", "fuel", "oxidizer">>

\* A row is written as the fields are read (no buffering of the sample).
log_data_partial(rs, failAt) ==
    IF failAt = 0 THEN Append(rs, DataLine)
    ELSE Append(rs, SubSeq(DataLine, 1, failAt))

\* log_data: the rows after a sample whose failAt-th read raises (0: none does).
\* All reads precede the write; an exception skips it.
log_data(rs, failAt) ==
    IF failAt = 0 THEN Append(rs, DataLine) ELSE rs

\* log_status, called only under "if flight_data_logger:".
log_status(s) ==
    statuses' = IF recorder = "ok" THEN Append(statuses, s) ELSE statuses

\* The periodic sample inside a polling loop: "if <timer due> and
\* flight_data_logger: flight_data_logger.log_data()".
Sample ==
    \E due \in BOOLEAN, failAt \in 0..Len(SampleReads) :
        IF due /\ recorder = "ok" /\ Len(rows) + dataErrors < MaxSamples
        THEN /\ rows' = log_data(rows, failAt)
             /\ dataErrors' = IF failAt = 0 THEN dataErrors ELSE dataErrors + 1
        ELSE UNCHANGED <<rows, dataErrors>>

---------------------------------------------------------------------------
\* Helpers of main

\* get_fuel: the amount read, 0 when the read raises.  main never calls it.
get_fuel(readOk, amount) == IF readOk THEN amount ELSE 0

\* get_oxidizer: the amount read, 0 when the read raises.  main never calls it.
get_oxidizer(readOk, amount) == IF readOk THEN amount ELSE 0

Phase == IF phases = <<>> THEN "PreLaunch" ELSE phases[Len(phases)]

Enter(p) == phases' = Append(phases, p)

Crash == pc' = "crashed"

GravityTurnContinuesStrict(alt) == alt <= TurnAltitude
\* while altitude() < 10000
GravityTurnContinues(alt) == alt < TurnAltitude

\* while apoapsis() < 80000
AscentContinues(apo) == apo < TargetApoapsis

\* while altitude() < 78000
CoastContinues(alt) == alt < CoastAltitude

\* The burn loop that stops as soon as the periapsis is an orbit.
BurnContinuesBelowOrbit(peri) == peri < OrbitPeriapsis

\* while periapsis() < 75000
BurnContinues(peri) == peri < TargetPeriapsis

PropellantOutStrict(fuel, ox) == fuel < EmptyPropellant \/ ox < EmptyPropellant
\* if current_fuel <= 0.1 or current_oxidizer <= 0.1
PropellantOut(fuel, ox) == fuel <= EmptyPropellant \/ ox <= EmptyPropellant

FuelAdvisoryLevel(fuel, w) ==
    IF fuel < LowFuel THEN "low"
    ELSE "none"
\* Steers also at a pitch of exactly 15 degrees.
SteeringInclusive(pitch) == pitch >= SteerPitch

\* if pitch > 15: the iteration lowers the target pitch and commands it.
Steering(pitch) == pitch > SteerPitch

\* The advisory of one iteration of the ascent loop: "low", "strong" or "none".
FuelAdvisory(fuel, w) ==
    IF fuel < LowFuel /\ w = 0 THEN "low"
    ELSE IF fuel < VeryLowFuel /\ w = 1 THEN "strong"
    ELSE "none"

AnalyseHighBar(fe, peri) ==
    IF fe THEN
        IF peri > 0 THEN <<"partial_failure">> ELSE <<"critical_failure_dry">>
    ELSE IF peri > PrecisionHigh THEN
        IF peri >= PrecisionLow /\ peri <= PrecisionHigh
        THEN <<"success_high">> ELSE <<"success_acceptable">>
    ELSE IF peri > 0 THEN <<"partial_success">>
    ELSE <<"critical_failure_suborbital">>
AnalyseNoBand(fe, peri) ==
    IF fe THEN
        IF peri > 0 THEN <<"partial_failure">> ELSE <<"critical_failure_dry">>
    ELSE IF peri >= OrbitPeriapsis THEN
        IF peri > PrecisionLow /\ peri < PrecisionHigh
        THEN <<"success_high">> ELSE <<"success_acceptable">>
    ELSE IF peri > 0 THEN <<"partial_success">>
    ELSE <<"critical_failure_suborbital">>
\* The result analysis: the outcome classes logged for (fuel_empty, final_peri).
Analyse(fe, peri) ==
    IF fe THEN
        IF peri > 0 THEN <<"partial_failure">> ELSE <<"critical_failure_dry">>
    ELSE IF peri >= OrbitPeriapsis THEN
        IF peri >= PrecisionLow /\ peri <= PrecisionHigh
        THEN <<"success_high">> ELSE <<"success_acceptable">>
    ELSE IF peri > 0 THEN <<"partial_success">>
    ELSE <<"critical_failure_suborbital">>

\* The phase the sequencer is in once the burn loop is over.
AfterBurn(fe) == IF fe THEN "Aborted" ELSE "MissionSummary"

NextPanelAbort(i, failed) == IF failed THEN NumPanels + 1 ELSE i + 1
\* for panel in vessel.parts.solar_panels, the try inside the loop body.
NextPanel(i, failed) == i + 1

---------------------------------------------------------------------------
Init ==
    /\ pc = "start"
    /\ conn = "none"
    /\ logged = {}
    /\ streams = 0
    /\ recorder = "none"
    /\ rows = <<>>
    /\ dataErrors = 0
    /\ statuses = <<>>
    /\ closes = 0
    /\ releases = 0
    /\ acts = <<>>
    /\ throttle = -1
    /\ sas = FALSE
    /\ sasMode = "stability"
    /\ apEngaged = FALSE
    /\ apTarget = <<>>
    /\ phases = <<>>
    /\ polled = <<"none", 0>>
    /\ fuel_warnings = 0
    /\ target_pitch = 0
    /\ entry_pitch = 0
    /\ steers = 0
    /\ fuelReads = <<>>
    /\ advisories = <<>>
    /\ panelIdx = 1
    /\ panelsFed = [ok |-> 0, fixed |-> 0, fault |-> 0]
    /\ solar_count = 0
    /\ panelErrors = 0
    /\ fuel_empty = FALSE
    /\ lastProp = <<>>
    /\ propLowSeen = FALSE
    /\ final_peri = 0
    /\ outcomes = <<>>
    /\ tankLow = FALSE

---------------------------------------------------------------------------
\* The failure branch without its return.
ConnectNoReturn ==
    /\ pc = "start"
    /\ \E ok \in BOOLEAN :
        IF ok
        THEN /\ conn' = "open"
             /\ logged' = logged \cup {"connected"}
        ELSE /\ conn' = "failed"
             /\ logged' = logged \cup {"connection_error", "remediation"}
    /\ pc' = "create_recorder"
    /\ UNCHANGED <<streams, recorder, recVars, releases, actVars, phases, polled,
                   ascentVars, panelVars, endVars>>

\* krpc.connect in its try/except: on failure log the error and the
\* remediation lines, then return.
Connect ==
    /\ pc = "start"
    /\ \E ok \in BOOLEAN :
        IF ok
        THEN /\ conn' = "open"
             /\ logged' = logged \cup {"connected"}
             /\ pc' = "create_recorder"
        ELSE /\ conn' = "failed"
             /\ logged' = logged \cup {"connection_error", "remediation"}
             /\ pc' = "halted"
    /\ UNCHANGED <<streams, recorder, recVars, releases, actVars, phases, polled,
                   ascentVars, panelVars, endVars>>

\* FlightDataLogger(vessel, conn) in its try/except; the constructor subscribes
\* its streams and writes the header.
CreateRecorder ==
    /\ pc = "create_recorder"
    /\ \E ok \in BOOLEAN :
        IF ok
        THEN /\ recorder' = "ok"
             /\ streams' = streams + RecorderStreams
             /\ logged' = logged \cup {"recorder_ready"}
        ELSE /\ recorder' = "failed"
             /\ streams' = streams
             /\ logged' = logged \cup {"recorder_error"}
    /\ pc' = "prepare"
    /\ UNCHANGED <<conn, recVars, releases, actVars, phases, polled,
                   ascentVars, panelVars, endVars>>

\* main's own streams, the initial resource reads (uncaught) and the first
\* status line.
Prepare ==
    /\ pc = "prepare"
    /\ streams' = streams + MainStreams
    /\ \E readOk \in BOOLEAN :
        IF readOk
        THEN /\ log_status("mission_start")
             /\ pc' = "ignition"
        ELSE /\ Crash
             /\ UNCHANGED statuses
    /\ UNCHANGED <<conn, logged, recorder, rows, dataErrors, closes, releases,
                   actVars, phases, polled, ascentVars, panelVars, endVars>>

\* Phase 1: full throttle and staging.
Ignite ==
    /\ pc = "ignition"
    /\ Enter("Ignition")
    /\ throttle' = FullThrottle
    /\ acts' = acts \o <<"throttle_max", "stage">>
    /\ log_status("engine_start")
    /\ pc' = "sas_radial"
    /\ UNCHANGED <<conn, logged, streams, recorder, rows, dataErrors, closes,
                   releases, sas, sasMode, apEngaged, apTarget, polled,
                   ascentVars, panelVars, endVars>>

\* SAS on, radial mode in its try/except, then the Phase 2 banner.
SasRadial ==
    /\ pc = "sas_radial"
    /\ sas' = TRUE
    /\ \E ok \in BOOLEAN :
        IF ok
        THEN /\ sasMode' = "radial"
             /\ acts' = acts \o <<"sas_on", "sas_mode_radial">>
             /\ logged' = logged \cup {"sas_radial_set"}
        ELSE /\ sasMode' = sasMode
             /\ acts' = Append(acts, "sas_on")
             /\ logged' = logged \cup {"sas_radial_warning"}
    /\ Enter("GravityTurn")
    /\ pc' = "gravity_poll"
    /\ UNCHANGED <<conn, streams, recorder, recVars, releases, throttle,
                   apEngaged, apTarget, polled, ascentVars, panelVars, endVars>>

\* SAS is switched off inside the block that writes the status line.
GravityPollSasOffWithRecorder ==
    /\ pc = "gravity_poll"
    /\ \E alt \in GravityAltVals :
        /\ polled' = <<"altitude", alt>>
        /\ IF GravityTurnContinues(alt)
           THEN /\ pc' = "gravity_log"
                /\ UNCHANGED <<statuses, actVars, phases>>
           ELSE /\ log_status("reached_10km")
                /\ sas' = IF recorder = "ok" THEN FALSE ELSE sas
                /\ apEngaged' = TRUE
                /\ apTarget' = <<TurnPitch, TurnHeading>>
                /\ acts' = acts \o (IF recorder = "ok" THEN <<"sas_off">> ELSE <<>>)
                              \o <<"ap_engage", "ap_target">>
                /\ Enter("PoweredAscentToTargetApoapsis")
                /\ pc' = "turn_wait"
                /\ UNCHANGED <<throttle, sasMode>>
    /\ UNCHANGED <<conn, logged, streams, recorder, rows, dataErrors, closes,
                   releases, ascentVars, panelVars, endVars>>

\* while altitude() < 10000; on exit the status line, SAS off and the
\* one-shot turn is commanded.
GravityPoll ==
    /\ pc = "gravity_poll"
    /\ \E alt \in GravityAltVals :
        /\ polled' = <<"altitude", alt>>
        /\ IF GravityTurnContinues(alt)
           THEN /\ pc' = "gravity_log"
                /\ UNCHANGED <<statuses, actVars, phases>>
           ELSE /\ log_status("reached_10km")
                /\ sas' = FALSE
                /\ apEngaged' = TRUE
                /\ apTarget' = <<TurnPitch, TurnHeading>>
                /\ acts' = acts \o <<"sas_off", "ap_engage", "ap_target">>
                /\ Enter("PoweredAscentToTargetApoapsis")
                /\ pc' = "turn_wait"
                /\ UNCHANGED <<throttle, sasMode>>
    /\ UNCHANGED <<conn, logged, streams, recorder, rows, dataErrors, closes,
                   releases, ascentVars, panelVars, endVars>>

GravityLog ==
    /\ pc = "gravity_log"
    /\ Sample
    /\ pc' = "gravity_report"
    /\ UNCHANGED <<conn, logged, streams, recorder, statuses, closes, releases,
                   actVars, phases, polled, ascentVars, panelVars, endVars>>

\* The 2 s report reads the fuel outside any try.
GravityReport ==
    /\ pc = "gravity_report"
    /\ \E due \in BOOLEAN, readOk \in BOOLEAN :
        IF due /\ ~readOk THEN Crash ELSE pc' = "gravity_poll"
    /\ UNCHANGED <<conn, logged, streams, recorder, recVars, releases, actVars,
                   phases, polled, ascentVars, panelVars, endVars>>

\* The turn that commands full throttle once more when it completes.
TurnDoneRecommandsThrottle ==
    /\ pc = "turn_wait"
    /\ apEngaged' = FALSE
    /\ acts' = acts \o <<"ap_disengage", "throttle_max">>
    /\ fuel_warnings' = 0
    /\ \E p \in EntryPitchVals :
        /\ target_pitch' = p
        /\ entry_pitch' = p
    /\ steers' = 0
    /\ fuelReads' = <<>>
    /\ pc' = "ascent_poll"
    /\ UNCHANGED <<conn, logged, streams, recorder, recVars, releases, throttle,
                   sas, sasMode, apTarget, phases, polled, advisories,
                   panelVars, endVars>>

\* ap.wait() returns, the autopilot is disengaged, the ascent loop's locals
\* are initialised.
TurnDone ==
    /\ pc = "turn_wait"
    /\ apEngaged' = FALSE
    /\ acts' = Append(acts, "ap_disengage")
    /\ fuel_warnings' = 0
    /\ \E p \in EntryPitchVals :
        /\ target_pitch' = p
        /\ entry_pitch' = p
    /\ steers' = 0
    /\ fuelReads' = <<>>
    /\ pc' = "ascent_poll"
    /\ UNCHANGED <<conn, logged, streams, recorder, recVars, releases, throttle,
                   sas, sasMode, apTarget, phases, polled, advisories,
                   panelVars, endVars>>

\* The ascent loop exit that leaves the attitude hold as it is.
AscentPollKeepsHold ==
    /\ pc = "ascent_poll"
    /\ \E apo \in ApoVals :
        /\ polled' = <<"apoapsis", apo>>
        /\ IF AscentContinues(apo)
           THEN /\ Len(fuelReads) < MaxAscentIters
                /\ pc' = "ascent_log"
                /\ UNCHANGED <<statuses, actVars, phases, fuelReads>>
           ELSE /\ throttle' = ZeroThrottle
                /\ apEngaged' = apEngaged
                /\ acts' = Append(acts, "throttle_zero")
                /\ log_status("apoapsis_reached")
                /\ Enter("CoastToApoapsis")
                /\ fuelReads' = <<>>
                /\ \E readOk \in BOOLEAN :
                    IF readOk THEN pc' = "panels" ELSE Crash
                /\ UNCHANGED <<sas, sasMode, apTarget>>
    /\ UNCHANGED <<conn, logged, streams, recorder, rows, dataErrors, closes,
                   releases, fuel_warnings, target_pitch, entry_pitch, steers,
                   advisories, panelVars, endVars>>

\* while apoapsis() < 80000; on exit throttle zero, autopilot disengaged, the
\* status line, then the uncaught resource reads.
AscentPoll ==
    /\ pc = "ascent_poll"
    /\ \E apo \in ApoVals :
        /\ polled' = <<"apoapsis", apo>>
        /\ IF AscentContinues(apo)
           THEN /\ Len(fuelReads) < MaxAscentIters
                /\ pc' = "ascent_log"
                /\ UNCHANGED <<statuses, actVars, phases, fuelReads>>
           ELSE /\ throttle' = ZeroThrottle
                /\ apEngaged' = FALSE
                /\ acts' = acts \o <<"throttle_zero", "ap_disengage">>
                /\ log_status("apoapsis_reached")
                /\ Enter("CoastToApoapsis")
                /\ fuelReads' = <<>>
                /\ \E readOk \in BOOLEAN :
                    IF readOk THEN pc' = "panels" ELSE Crash
                /\ UNCHANGED <<sas, sasMode, apTarget>>
    /\ UNCHANGED <<conn, logged, streams, recorder, rows, dataErrors, closes,
                   releases, fuel_warnings, target_pitch, entry_pitch, steers,
                   advisories, panelVars, endVars>>

AscentLog ==
    /\ pc = "ascent_log"
    /\ Sample
    /\ pc' = "ascent_body"
    /\ UNCHANGED <<conn, logged, streams, recorder, statuses, closes, releases,
                   actVars, phases, polled, ascentVars, panelVars, endVars>>

\* The ascent loop flags exhaustion on a very low reading.
AscentBodyFlagsEmpty ==
    /\ pc = "ascent_body"
    /\ \E pitch \in PitchVals, heading \in HeadingVals :
        /\ steers' = steers + (IF pitch > 150 THEN 1 ELSE 0)
        /\ IF Steering(pitch)
           THEN /\ apEngaged' = TRUE
                /\ target_pitch' = target_pitch - PitchStep
                /\ apTarget' = <<target_pitch - PitchStep, heading>>
                /\ acts' = acts \o <<"ap_engage", "ap_target">>
           ELSE UNCHANGED <<apEngaged, target_pitch, apTarget, acts>>
    /\ \E readOk \in BOOLEAN :
        IF readOk
        THEN \E fuel \in AscentFuelVals :
              /\ fuelReads' = Append(fuelReads, fuel)
              /\ LET a == FuelAdvisory(fuel, fuel_warnings) IN
                  /\ fuel_warnings' = IF a = "none" THEN fuel_warnings
                                      ELSE fuel_warnings + 1
                  /\ advisories' = IF a = "none" THEN advisories
                                   ELSE Append(advisories, a)
              /\ fuel_empty' = (fuel < VeryLowFuel)
              /\ pc' = "ascent_poll"
        ELSE /\ Crash
             /\ UNCHANGED <<fuelReads, fuel_warnings, advisories, fuel_empty>>
    /\ UNCHANGED <<conn, logged, streams, recorder, recVars, releases, throttle,
                   sas, sasMode, phases, polled, entry_pitch, panelVars, lastProp,
                   propLowSeen, final_peri, outcomes, tankLow>>

\* The loop body: steer while pitch > 15, read the fuel (uncaught), advise.
AscentBody ==
    /\ pc = "ascent_body"
    /\ \E pitch \in PitchVals, heading \in HeadingVals :
        /\ steers' = steers + (IF pitch > 150 THEN 1 ELSE 0)
        /\ IF Steering(pitch)
           THEN /\ apEngaged' = TRUE
                /\ target_pitch' = target_pitch - PitchStep
                /\ apTarget' = <<target_pitch - PitchStep, heading>>
                /\ acts' = acts \o <<"ap_engage", "ap_target">>
           ELSE UNCHANGED <<apEngaged, target_pitch, apTarget, acts>>
    /\ \E readOk \in BOOLEAN :
        IF readOk
        THEN \E fuel \in AscentFuelVals :
              /\ fuelReads' = Append(fuelReads, fuel)
              /\ LET a == FuelAdvisory(fuel, fuel_warnings) IN
                  /\ fuel_warnings' = IF a = "none" THEN fuel_warnings
                                      ELSE fuel_warnings + 1
                  /\ advisories' = IF a = "none" THEN advisories
                                   ELSE Append(advisories, a)
              /\ pc' = "ascent_poll"
        ELSE /\ Crash
             /\ UNCHANGED <<fuelReads, fuel_warnings, advisories>>
    /\ UNCHANGED <<conn, logged, streams, recorder, recVars, releases, throttle,
                   sas, sasMode, phases, polled, entry_pitch, panelVars, endVars>>

\* One panel of the deployment loop: deployable and deployed, not
\* deployable, or an access that raises and is logged.
DeployPanel ==
    /\ pc = "panels"
    /\ panelIdx <= NumPanels
    /\ \E kind \in {"ok", "fixed", "fault"} :
        /\ panelsFed' = [panelsFed EXCEPT ![kind] = @ + 1]
        /\ solar_count' = IF kind = "ok" THEN solar_count + 1 ELSE solar_count
        /\ acts' = IF kind = "ok" THEN Append(acts, "deploy") ELSE acts
        /\ panelErrors' = IF kind = "fault" THEN panelErrors + 1 ELSE panelErrors
        /\ panelIdx' = NextPanel(panelIdx, kind = "fault")
    /\ UNCHANGED <<pc, conn, logged, streams, recorder, recVars, releases,
                   throttle, sas, sasMode, apEngaged, apTarget, phases, polled,
                   ascentVars, endVars>>

\* After the loop: the count line, the Phase 5 banner and status line.
PanelsDone ==
    /\ pc = "panels"
    /\ panelIdx > NumPanels
    /\ logged' = logged \cup {IF solar_count > 0 THEN "panels_deployed"
                                                 ELSE "panels_not_found"}
    /\ statuses' = IF recorder = "ok"
                   THEN statuses \o <<"deploying_panels", "waiting_apoapsis">>
                   ELSE statuses
    /\ pc' = "coast_poll"
    /\ UNCHANGED <<conn, streams, recorder, rows, dataErrors, closes, releases,
                   actVars, phases, polled, ascentVars, panelVars, endVars>>

\* while altitude() < 78000; on exit SAS prograde in its try/except, full
\* throttle, then the uncaught fuel read.
CoastPoll ==
    /\ pc = "coast_poll"
    /\ \E alt \in CoastAltVals :
        /\ polled' = <<"altitude", alt>>
        /\ IF CoastContinues(alt)
           THEN /\ pc' = "coast_log"
                /\ UNCHANGED <<logged, statuses, actVars, phases, fuel_empty>>
           ELSE /\ Enter("CircularizationBurn")
                /\ statuses' = IF recorder = "ok"
                               THEN statuses \o <<"maneuver_start", "engine_on">>
                               ELSE statuses
                /\ sas' = TRUE
                /\ \E ok \in BOOLEAN :
                    IF ok
                    THEN /\ sasMode' = "prograde"
                         /\ acts' = acts \o <<"sas_on", "sas_mode_prograde",
                                              "throttle_max">>
                         /\ logged' = logged \cup {"sas_prograde_set"}
                    ELSE /\ sasMode' = sasMode
                         /\ acts' = acts \o <<"sas_on", "throttle_max">>
                         /\ logged' = logged \cup {"sas_prograde_warning"}
                /\ throttle' = FullThrottle
                /\ fuel_empty' = FALSE
                /\ \E readOk \in BOOLEAN :
                    IF readOk THEN pc' = "burn_poll" ELSE Crash
                /\ UNCHANGED <<apEngaged, apTarget>>
    /\ UNCHANGED <<conn, streams, recorder, rows, dataErrors, closes, releases,
                   ascentVars, panelVars, lastProp, propLowSeen, final_peri,
                   outcomes, tankLow>>

CoastLog ==
    /\ pc = "coast_log"
    /\ Sample
    /\ pc' = "coast_report"
    /\ UNCHANGED <<conn, logged, streams, recorder, statuses, closes, releases,
                   actVars, phases, polled, ascentVars, panelVars, endVars>>

\* remaining = 78000 - altitude(); within 5 km the fuel is read, uncaught.
CoastReport ==
    /\ pc = "coast_report"
    /\ \E alt \in CoastAltVals, readOk \in BOOLEAN :
        IF CoastAltitude - alt < ReportWindow /\ ~readOk
        THEN Crash ELSE pc' = "coast_poll"
    /\ UNCHANGED <<conn, logged, streams, recorder, recVars, releases, actVars,
                   phases, polled, ascentVars, panelVars, endVars>>

\* The abort path leaves the loop without the throttle command.
EndBurnAbortKeepsThrottle ==
    /\ throttle' = IF fuel_empty' THEN throttle ELSE ZeroThrottle
    /\ acts' = IF fuel_empty' THEN acts ELSE Append(acts, "throttle_zero")
    /\ log_status("maneuver_end")
    /\ Enter(AfterBurn(fuel_empty'))
    /\ pc' = "summary"
    /\ UNCHANGED <<sas, sasMode, apEngaged, apTarget>>

\* The code after the burn loop: throttle zero, the status line, the banner.
EndBurn ==
    /\ throttle' = ZeroThrottle
    /\ acts' = Append(acts, "throttle_zero")
    /\ log_status("maneuver_end")
    /\ Enter(AfterBurn(fuel_empty'))
    /\ pc' = "summary"
    /\ UNCHANGED <<sas, sasMode, apEngaged, apTarget>>

\* The loop whose body checks the propellant before it looks at the
\* periapsis polled at the top of the iteration.
BurnPollChecksPropellantFirst ==
    /\ pc = "burn_poll"
    /\ \E peri \in PeriVals, low \in BOOLEAN :
        /\ tankLow => low
        /\ tankLow' = low
        /\ polled' = <<"periapsis", peri>>
        /\ IF low
           THEN /\ logged' = logged \cup {"fuel_out"}
                /\ fuel_empty' = TRUE
                /\ EndBurn
           ELSE /\ logged' = logged
                /\ IF BurnContinues(peri)
                   THEN /\ pc' = "burn_log"
                        /\ UNCHANGED <<statuses, actVars, phases, fuel_empty>>
                   ELSE /\ fuel_empty' = fuel_empty
                        /\ EndBurn
    /\ UNCHANGED <<conn, streams, recorder, rows, dataErrors, closes,
                   releases, ascentVars, panelVars, lastProp, propLowSeen,
                   final_peri, outcomes>>

\* while periapsis() < 75000: the condition is evaluated before anything
\* else of the iteration, whatever the tanks hold at that moment.
BurnPoll ==
    /\ pc = "burn_poll"
    /\ \E peri \in PeriVals, low \in BOOLEAN :
        /\ tankLow => low
        /\ tankLow' = low
        /\ polled' = <<"periapsis", peri>>
        /\ IF BurnContinues(peri)
           THEN /\ pc' = "burn_log"
                /\ UNCHANGED <<statuses, actVars, phases, fuel_empty>>
           ELSE /\ fuel_empty' = fuel_empty
                /\ EndBurn
    /\ UNCHANGED <<conn, logged, streams, recorder, rows, dataErrors, closes,
                   releases, ascentVars, panelVars, lastProp, propLowSeen,
                   final_peri, outcomes>>

BurnLog ==
    /\ pc = "burn_log"
    /\ Sample
    /\ pc' = "burn_body"
    /\ UNCHANGED <<conn, logged, streams, recorder, statuses, closes, releases,
                   actVars, phases, polled, ascentVars, panelVars, endVars>>

\* The loop body: the uncaught propellant reads, then the check that breaks.
BurnBody ==
    /\ pc = "burn_body"
    /\ \E readOk \in BOOLEAN :
        IF readOk
        THEN \E prop \in BurnPropVals :
              /\ tankLow => (prop[1] <= 1 \/ prop[2] <= 1)
              /\ tankLow' = (prop[1] <= 1 \/ prop[2] <= 1)
              /\ lastProp' = prop
              /\ propLowSeen' = (propLowSeen \/ prop[1] <= 1 \/ prop[2] <= 1)
              /\ IF PropellantOut(prop[1], prop[2])
                 THEN /\ logged' = logged \cup {"fuel_out"}
                      /\ fuel_empty' = TRUE
                      /\ EndBurn
                 ELSE /\ pc' = "burn_poll"
                      /\ UNCHANGED <<logged, fuel_empty, statuses, actVars, phases>>
        ELSE /\ Crash
             /\ UNCHANGED <<logged, lastProp, propLowSeen, fuel_empty, statuses,
                            actVars, phases, tankLow>>
    /\ UNCHANGED <<conn, streams, recorder, rows, dataErrors, closes, releases,
                   polled, ascentVars, panelVars, final_peri, outcomes>>

\* The final reads (uncaught) and the result analysis.
Summary ==
    /\ pc = "summary"
    /\ \E readOk \in BOOLEAN :
        IF readOk
        THEN \E peri \in FinalPeriVals :
              /\ final_peri' = peri
              /\ outcomes' = outcomes \o Analyse(fuel_empty, peri)
              /\ pc' = "finalize"
        ELSE /\ Crash
             /\ UNCHANGED <<final_peri, outcomes>>
    /\ UNCHANGED <<conn, logged, streams, recorder, recVars, releases, actVars,
                   phases, polled, ascentVars, panelVars, fuel_empty, lastProp,
                   propLowSeen, tankLow>>

\* if flight_data_logger: the last status line and close().
Finalize ==
    /\ pc = "finalize"
    /\ log_status("mission_end")
    /\ closes' = IF recorder = "ok" THEN closes + 1 ELSE closes
    /\ pc' = "release"
    /\ UNCHANGED <<conn, logged, streams, recorder, rows, dataErrors, releases,
                   actVars, phases, polled, ascentVars, panelVars, endVars>>

\* conn.close() and the closing lines.
Release ==
    /\ pc = "release"
    /\ conn' = "closed"
    /\ releases' = releases + 1
    /\ pc' = "done"
    /\ UNCHANGED <<logged, streams, recorder, recVars, actVars, phases, polled,
                   ascentVars, panelVars, endVars>>

Next ==
    \/ Connect
    \/ CreateRecorder
    \/ Prepare
    \/ Ignite
    \/ SasRadial
    \/ GravityPoll
    \/ GravityLog
    \/ GravityReport
    \/ TurnDone
    \/ AscentPoll
    \/ AscentLog
    \/ AscentBody
    \/ DeployPanel
    \/ PanelsDone
    \/ CoastPoll
    \/ CoastLog
    \/ CoastReport
    \/ BurnPoll
    \/ BurnLog
    \/ BurnBody
    \/ Summary
    \/ Finalize
    \/ Release

Spec == Init /\ [][Next]_vars

\* The polls at which a loop condition turns false: the reading has reached
\* the threshold of its phase.
GravityExit == GravityPoll /\ pc' # "gravity_log"
AscentExit == AscentPoll /\ pc' # "ascent_log"
CoastExit == CoastPoll /\ pc' # "coast_log"
BurnExit == BurnPoll /\ pc' # "burn_log"

\* main() runs on: every statement is eventually executed, time.sleep
\* returns, and every monitored reading eventually reaches its threshold.
SpecLive ==
    /\ Init /\ [][Next]_vars
    /\ WF_vars(Next)
    /\ SF_vars(GravityExit)
    /\ SF_vars(AscentExit)
    /\ SF_vars(CoastExit)
    /\ SF_vars(BurnExit)

---------------------------------------------------------------------------
\* Properties

C1_Order == <<"Ignition", "GravityTurn", "PoweredAscentToTargetApoapsis",
              "CoastToApoapsis", "CircularizationBurn">>

C1_IsPrefix(s, t) == Len(s) <= Len(t) /\ \A i \in 1..Len(s) : s[i] = t[i]

\* C1: the phases entered are always an initial part of Ignition, GravityTurn,
\* PoweredAscentToTargetApoapsis, CoastToApoapsis, CircularizationBurn, or all
\* five followed by exactly one terminal state (MissionSummary or Aborted);
\* the summary code runs only after a terminal state was entered, and
\* fuel_empty is false in every state before CircularizationBurn.
C1_PhaseOrder ==
    /\ \/ C1_IsPrefix(phases, C1_Order)
       \/ \E t \in {"MissionSummary", "Aborted"} : phases = Append(C1_Order, t)
    /\ Len(phases) < 5 => ~fuel_empty
    /\ pc \in {"summary", "finalize", "release", "done"} => Len(phases) = 6

\* An aborted mission whose ascent had already logged both advisories.
C1_Witness ==
    /\ phases = Append(C1_Order, "Aborted")
    /\ advisories = <<"low", "strong">>
    /\ pc = "done"

C2_Classes == {"partial_failure", "critical_failure_dry", "success_high",
               "success_acceptable", "partial_success",
               "critical_failure_suborbital"}

\* The decision table, row by row.
C2_Table(fe, p, c) ==
    \/ fe /\ p > 0 /\ c = "partial_failure"
    \/ fe /\ p <= 0 /\ c = "critical_failure_dry"
    \/ ~fe /\ p >= 74000 /\ p <= 76000 /\ c = "success_high"
    \/ ~fe /\ p >= 70000 /\ (p < 74000 \/ p > 76000) /\ c = "success_acceptable"
    \/ ~fe /\ p > 0 /\ p < 70000 /\ c = "partial_success"
    \/ ~fe /\ p <= 0 /\ c = "critical_failure_suborbital"

C2_Classified == pc \in {"finalize", "release", "done"}

\* C2: once the analysis has run, exactly one outcome class has been emitted,
\* and it is the class the decision table gives for (fuel_empty, final
\* periapsis); before the analysis none has been emitted.
C2_Classification ==
    /\ C2_Classified =>
        /\ Len(outcomes) = 1
        /\ \A c \in C2_Classes :
            (outcomes[1] = c) <=> C2_Table(fuel_empty, final_peri, c)
    /\ ~C2_Classified => outcomes = <<>>

\* A mission classified at the upper edge of the precision band.
C2_Witness ==
    /\ pc = "done"
    /\ ~fuel_empty
    /\ final_peri = 76000
    /\ outcomes = <<"success_high">>

C3_Low == lastProp # <<>> /\ (lastProp[1] <= 1 \/ lastProp[2] <= 1)

\* C3: once the burn loop has read a fuel or oxidizer quantity of 0.1 or
\* less, fuel_empty is set and the sequencer is out of the loop, in Aborted;
\* from then on the loop polls neither the propellant nor the periapsis.
C3_AbortOnFirstLow ==
    /\ [](C3_Low => /\ fuel_empty
                    /\ Phase = "Aborted"
                    /\ pc \notin {"burn_poll", "burn_log", "burn_body"})
    /\ [][C3_Low => lastProp' = lastProp /\ polled' = polled]_vars

\* Aborted on a fuel reading of exactly 0.1.
C3_Witness ==
    /\ Phase = "Aborted"
    /\ fuel_empty
    /\ lastProp = <<1, 2>>

C4_Terminal == Phase \in {"MissionSummary", "Aborted"}

\* C4: the step that leaves CircularizationBurn commands throttle zero as its
\* only actuator command; in MissionSummary and Aborted the commanded
\* throttle is zero, the last actuator command is that throttle zero, and no
\* step changes an actuator or issues a command.
C4_ThrottleZeroAtEnd ==
    /\ [](C4_Terminal => /\ throttle = 0
                         /\ acts # <<>>
                         /\ acts[Len(acts)] = "throttle_zero")
    /\ [][Phase = "CircularizationBurn" /\ Phase' # Phase =>
            /\ acts' = Append(acts, "throttle_zero")
            /\ throttle' = 0]_vars
    /\ [][C4_Terminal => UNCHANGED <<acts, throttle, sas, sasMode, apEngaged,
                                     apTarget, solar_count>>]_vars

\* The abort path ends with the throttle at zero.
C4_Witness ==
    /\ Phase = "Aborted"
    /\ pc = "done"
    /\ throttle = 0
    /\ acts[Len(acts)] = "throttle_zero"

\* C5: the advisories logged are none, the low one, or the low one followed
\* by the stronger one, whatever fuel readings the ascent loop gets; for the
\* readings 150, 90, 40 the low one is logged on 90 and the stronger on 40.
C5_AdvisoriesOnce ==
    /\ advisories \in {<<>>, <<"low">>, <<"low", "strong">>}
    /\ fuelReads = <<1500>> => advisories = <<>>
    /\ fuelReads = <<1500, 900>> => advisories = <<"low">>
    /\ fuelReads = <<1500, 900, 400>> => advisories = <<"low", "strong">>

\* The readings 150, 90, 40 were fed and two advisories logged.
C5_Witness ==
    /\ fuelReads = <<1500, 900, 400>>
    /\ advisories = <<"low", "strong">>

\* A poll at position at of phase p with threshold thr: the phase is left for
\* q exactly when the reading polled has reached thr.
C6_Poll(at, p, q, kind, thr) ==
    pc = at =>
        /\ Phase = p
        /\ polled'[1] = kind
        /\ IF polled'[2] >= thr THEN Phase' = q ELSE Phase' = p /\ pc' # "crashed"

\* Phase p is left for q only by a poll that read thr or more.
C6_Left(p, q, kind, thr) ==
    Phase = p /\ Phase' = q => polled'[1] = kind /\ polled'[2] >= thr

\* C6: every poll of a loop condition that reads the threshold or more leaves
\* the phase, and a phase is left for its successor only by such a poll:
\* GravityTurn at altitude 10,000, PoweredAscentToTargetApoapsis at apoapsis
\* 80,000, CoastToApoapsis at altitude 78,000, CircularizationBurn to
\* MissionSummary at periapsis 75,000.
C6_ExitAtThreshold ==
    [][/\ C6_Poll("gravity_poll", "GravityTurn",
                  "PoweredAscentToTargetApoapsis", "altitude", 10000)
       /\ C6_Poll("ascent_poll", "PoweredAscentToTargetApoapsis",
                  "CoastToApoapsis", "apoapsis", 80000)
       /\ C6_Poll("coast_poll", "CoastToApoapsis",
                  "CircularizationBurn", "altitude", 78000)
       /\ C6_Poll("burn_poll", "CircularizationBurn",
                  "MissionSummary", "periapsis", 75000)
       /\ C6_Left("GravityTurn", "PoweredAscentToTargetApoapsis",
                  "altitude", 10000)
       /\ C6_Left("PoweredAscentToTargetApoapsis", "CoastToApoapsis",
                  "apoapsis", 80000)
       /\ C6_Left("CoastToApoapsis", "CircularizationBurn", "altitude", 78000)
       /\ C6_Left("CircularizationBurn", "MissionSummary", "periapsis", 75000)
      ]_vars

\* GravityTurn left on a reading of exactly 10,000.
C6_Witness ==
    /\ Phase = "PoweredAscentToTargetApoapsis"
    /\ polled = <<"altitude", 10000>>

\* C7: a mission that ran to its end, whose burn never read propellant of 0.1
\* or less and whose periapsis was 75,000 or more when last read, went
\* through the five phases and MissionSummary in order, never through
\* Aborted, and logged a success class.
C7_EndToEnd ==
    pc = "done" /\ ~propLowSeen /\ final_peri >= 75000 =>
        /\ phases = <<"Ignition", "GravityTurn", "PoweredAscentToTargetApoapsis",
                      "CoastToApoapsis", "CircularizationBurn", "MissionSummary">>
        /\ ~fuel_empty
        /\ outcomes \in {<<"success_high">>, <<"success_acceptable">>}

\* The nominal mission: the burn ended on a periapsis of 75,000.
C7_Witness ==
    /\ pc = "done"
    /\ ~propLowSeen
    /\ polled = <<"periapsis", 75000>>
    /\ final_peri = 76000
    /\ outcomes = <<"success_high">>

C8_Fields == <<"time", "altitude", "speed", "vertical_speed",
               "horizontal_speed", "apoapsis", "periapsis", "pitch", "heading",
               "fuel", "oxidizer">>

\* C8: every row of the data file has the 11 fields of the header, in the
\* header's order; a sample that fails appends no row, and the step leaves
\* the phase and the actuators alone and goes on to the rest of the loop
\* body, as a sample that succeeds does.
C8_RowsWholeOrSkipped ==
    /\ [](\A i \in 1..Len(rows) : rows[i] = C8_Fields /\ rows[i] = Headers)
    /\ [][dataErrors' # dataErrors =>
            /\ dataErrors' = dataErrors + 1
            /\ rows' = rows
            /\ phases' = phases
            /\ UNCHANGED <<acts, throttle, sas, sasMode, apEngaged, apTarget>>
            /\ pc' \in {"gravity_report", "ascent_body", "coast_report",
                        "burn_body"}]_vars
    /\ [][rows' # rows => rows' = Append(rows, C8_Fields)]_vars

\* A mission that ran to its end with one failed and one written sample.
C8_Witness ==
    /\ pc = "done"
    /\ dataErrors = 1
    /\ Len(rows) = 1

C9_Deploys == Cardinality({i \in 1..Len(acts) : acts[i] = "deploy"})

\* C9: the panel loop starts with throttle zero and attitude hold off, in
\* CoastToApoapsis; every panel is visited in turn, every deployable panel
\* whose access works is commanded to deploy, every failure is logged, and
\* the coast loop starts only after all panels were visited.
C9_PanelsBestEffort ==
    /\ panelsFed.ok + panelsFed.fixed + panelsFed.fault = panelIdx - 1
    /\ panelIdx <= NumPanels + 1
    /\ solar_count = panelsFed.ok
    /\ C9_Deploys = panelsFed.ok
    /\ panelErrors = panelsFed.fault
    /\ pc = "panels" => throttle = 0 /\ ~apEngaged /\ Phase = "CoastToApoapsis"
    /\ (pc \in {"coast_poll", "coast_log", "coast_report"} \/ Len(phases) >= 5)
        => panelIdx = NumPanels + 1

\* The coast loop reached after a failed panel and then a deployed one.
C9_Witness ==
    /\ pc = "coast_poll"
    /\ panelErrors >= 1
    /\ solar_count >= 1
    /\ acts[Len(acts)] = "deploy"

\* C10: while there is no connection nothing is commanded, subscribed or
\* entered; a failed connection leaves the run halted with the error and the
\* remediation lines logged.
C10_ConnectionFatal ==
    /\ conn \in {"none", "failed"} =>
        /\ acts = <<>>
        /\ throttle = -1
        /\ ~sas /\ ~apEngaged /\ solar_count = 0
        /\ streams = 0
        /\ phases = <<>>
        /\ recorder = "none"
    /\ conn = "failed" =>
        /\ pc = "halted"
        /\ {"connection_error", "remediation"} \subseteq logged

\* The run halted by a failed connection.
C10_Witness ==
    /\ pc = "halted"
    /\ conn = "failed"
    /\ "remediation" \in logged

\* C11: a failure to set an SAS mode or to read a resource quantity never
\* halts the run: the run is never stopped by an exception, and an SAS mode
\* that could not be set has left a warning in the event log.
C11_TransientFailuresCaught ==
    /\ pc # "crashed"
    /\ (Len(phases) >= 2 /\ sasMode = "stability") =>
            "sas_radial_warning" \in logged
    /\ (Len(phases) >= 5 /\ sasMode # "prograde") =>
            "sas_prograde_warning" \in logged

C12_Ended == pc \in {"done", "crashed"}

\* C12: the recorder is finalized and the connection released at most once,
\* the release only after the finalize, neither before a terminal state is
\* reached, nothing is appended to the data file after the finalize; and a
\* run that reached MissionSummary or Aborted and has ended has finalized
\* the recorder it constructed and released the connection.
C12_FinalizedOnce ==
    /\ [](/\ closes <= 1 /\ releases <= 1
          /\ (recorder # "ok" => closes = 0)
          /\ (releases = 1 /\ recorder = "ok" => closes = 1)
          /\ (~C4_Terminal => closes = 0 /\ releases = 0)
          /\ (C4_Terminal /\ C12_Ended =>
                /\ releases = 1
                /\ (recorder = "ok" => closes = 1)))
    /\ [][closes >= 1 => rows' = rows /\ statuses' = statuses]_vars

C13_Leaves(k) == Len(phases) = k /\ Len(phases') = k + 1

\* C13: no polling phase has a timeout: a polling phase is left only by a
\* poll that reached its threshold (or, in CircularizationBurn, by the
\* propellant check); and when every monitored reading eventually reaches
\* its threshold, a mission that has ignited eventually reaches
\* MissionSummary or Aborted.
C13_NoTimeoutAndProgress ==
    /\ [][/\ C13_Leaves(2) =>
                polled'[1] = "altitude" /\ polled'[2] >= TurnAltitude
          /\ C13_Leaves(3) =>
                polled'[1] = "apoapsis" /\ polled'[2] >= TargetApoapsis
          /\ C13_Leaves(4) =>
                polled'[1] = "altitude" /\ polled'[2] >= CoastAltitude
          /\ C13_Leaves(5) =>
                \/ polled'[1] = "periapsis" /\ polled'[2] >= TargetPeriapsis
                \/ fuel_empty']_vars
    /\ (phases # <<>>) ~> C4_Terminal

\* C14 as stated: the propellant check comes before the periapsis exit is
\* acted on, so a mission whose tanks held 0.1 or less at a poll of
\* CircularizationBurn ends in Aborted with fuel_empty set, whatever the
\* periapsis polled.
C14_PropellantCheckedFirst ==
    (C4_Terminal /\ tankLow) => (Phase = "Aborted" /\ fuel_empty)

\* C14 amended: the periapsis exit condition is evaluated first.  A poll of
\* 75,000 m or more ends the burn in MissionSummary with fuel_empty unset
\* and without a propellant read, whatever the tanks hold; the propellant is
\* read only after a poll below 75,000 m, and a reading of 0.1 or less then
\* ends the burn in Aborted with fuel_empty set.
C14_PeriapsisPolledFirst ==
    [][/\ (pc = "burn_poll" /\ polled'[2] >= 75000) =>
            /\ Phase' = "MissionSummary"
            /\ ~fuel_empty'
            /\ lastProp' = lastProp
       /\ (pc = "burn_poll" /\ polled'[2] < 75000) =>
            /\ pc' = "burn_log"
            /\ Phase' = "CircularizationBurn"
       /\ (pc = "burn_body" /\ pc' # "crashed") =>
            /\ polled[2] < 75000
            /\ IF lastProp'[1] <= 1 \/ lastProp'[2] <= 1
               THEN Phase' = "Aborted" /\ fuel_empty'
               ELSE Phase' = "CircularizationBurn" /\ ~fuel_empty']_vars

C14_Witness ==
    /\ Phase = "MissionSummary"
    /\ polled = <<"periapsis", 75000>>
    /\ tankLow
    /\ ~fuel_empty

C15_Below(t) == \E i \in 1..Len(fuelReads) : fuelReads[i] < t

C15_Emitted(a) == \E i \in 1..Len(advisories) : advisories[i] = a

\* C15: while the ascent loop runs, each advisory has been emitted by the
\* end of the iteration of the first fuel reading below its threshold: the
\* low one as soon as a reading was below 100, the strong one as soon as a
\* reading was below 50, also when the fuel fell from 100 or more straight
\* to below 50 in one step.
C15_AdvisoryAtFirstReading ==
    pc \in {"ascent_poll", "ascent_log", "ascent_body"} =>
        /\ C15_Below(1000) <=> C15_Emitted("low")
        /\ C15_Below(500) <=> C15_Emitted("strong")

C16_Commanded == Cardinality({i \in 1..Len(acts) : acts[i] = "ap_target"})

\* C16: an iteration of the ascent loop whose pitch reading is above 15
\* degrees lowers the target pitch by exactly 0.3 degrees and commands it,
\* with the heading read, through the attitude hold; an iteration whose
\* reading is 15 degrees or less leaves the target alone and commands
\* nothing.  After k readings above 15 degrees the target is the pitch
\* measured at loop entry minus 0.3 k.
C16_TargetPitch ==
    /\ [](/\ target_pitch = entry_pitch - 3 * steers
          /\ Len(phases) >= 3 => C16_Commanded = 1 + steers)
    /\ [][pc = "ascent_body" =>
            IF steers' = steers + 1
            THEN /\ target_pitch' = target_pitch - 3
                 /\ apEngaged'
                 /\ apTarget' = <<target_pitch', 900>>
                 /\ acts' = acts \o <<"ap_engage", "ap_target">>
            ELSE /\ steers' = steers
                 /\ UNCHANGED <<target_pitch, apEngaged, apTarget, acts>>]_vars

\* Three iterations, two of them with a pitch above 15 degrees.
C16_Witness ==
    /\ pc = "ascent_poll"
    /\ Len(fuelReads) = 3
    /\ steers = 2
    /\ entry_pitch = 700
    /\ target_pitch = 694
    /\ apTarget = <<694, 900>>

C17_IsThrottle(a) == a \in {"throttle_max", "throttle_zero"}

\* C17: the commanded throttle is a function of the phase: 1.0 in every
\* state of the GravityTurn, PoweredAscentToTargetApoapsis and
\* CircularizationBurn loops, zero in every state of CoastToApoapsis and of
\* the terminal states; a mission in a terminal state has commanded the
\* throttle exactly four times: max, zero, max, zero.
C17_ThrottleByPhase ==
    /\ pc \in {"gravity_poll", "gravity_log", "gravity_report", "turn_wait",
               "ascent_poll", "ascent_log", "ascent_body",
               "burn_poll", "burn_log", "burn_body"} => throttle = 10
    /\ Phase \in {"GravityTurn", "PoweredAscentToTargetApoapsis",
                  "CircularizationBurn"} => throttle = 10
    /\ Phase \in {"CoastToApoapsis", "MissionSummary", "Aborted"} => throttle = 0
    /\ pc \in {"panels", "coast_poll", "coast_log", "coast_report"} =>
            Phase = "CoastToApoapsis"
    /\ C4_Terminal =>
            SelectSeq(acts, C17_IsThrottle) =
                <<"throttle_max", "throttle_zero", "throttle_max", "throttle_zero">>

\* A mission that went through every loop and ended in MissionSummary.
C17_Witness ==
    /\ pc = "done"
    /\ Phase = "MissionSummary"
    /\ steers >= 1
    /\ solar_count >= 1
    /\ Cardinality({i \in 1..Len(acts) : C17_IsThrottle(acts[i])}) = 4

C18_Success == {"success_high", "success_acceptable"}

\* C18: a mission that ended the burn with fuel_empty false left the burn
\* loop on a periapsis reading of 75,000 m or more; so a final periapsis not
\* below that reading is classified as a success, and 'partial success' and
\* the critical failure without exhaustion are emitted only when the final
\* periapsis read is below the reading that ended the loop.
C18_ExitPeriapsis ==
    /\ (C4_Terminal /\ ~fuel_empty) =>
            /\ polled[1] = "periapsis"
            /\ polled[2] >= 75000
    /\ (C2_Classified /\ ~fuel_empty /\ final_peri >= polled[2]) =>
            outcomes[1] \in C18_Success
    /\ (C2_Classified
            /\ outcomes[1] \in {"partial_success", "critical_failure_suborbital"}) =>
            /\ ~fuel_empty
            /\ final_peri < polled[2]

\* The periapsis fell from 75,000 m at the loop exit to below an orbit.
C18_Witness ==
    /\ pc = "done"
    /\ ~fuel_empty
    /\ polled = <<"periapsis", 75000>>
    /\ final_peri = 69999
    /\ outcomes = <<"partial_success">>

RECURSIVE C19_Rep(_, _)
C19_Rep(n, seq) == IF n = 0 THEN <<>> ELSE seq \o C19_Rep(n - 1, seq)

\* The actuator commands of a whole mission, from the telemetry it was fed:
\* whether each SAS mode could be set, the number of pitch readings above 15
\* degrees and the number of deployable panels.
C19_Acts ==
    <<"throttle_max", "stage", "sas_on">>
    \o (IF "sas_radial_set" \in logged THEN <<"sas_mode_radial">> ELSE <<>>)
    \o <<"sas_off", "ap_engage", "ap_target", "ap_disengage">>
    \o C19_Rep(steers, <<"ap_engage", "ap_target">>)
    \o <<"throttle_zero", "ap_disengage">>
    \o C19_Rep(panelsFed.ok, <<"deploy">>)
    \o <<"sas_on">>
    \o (IF "sas_prograde_set" \in logged THEN <<"sas_mode_prograde">> ELSE <<>>)
    \o <<"throttle_max", "throttle_zero">>

\* The phases of a whole mission, from the telemetry it was fed.
C19_Phases ==
    <<"Ignition", "GravityTurn", "PoweredAscentToTargetApoapsis",
      "CoastToApoapsis", "CircularizationBurn",
      IF propLowSeen THEN "Aborted" ELSE "MissionSummary">>

\* C19: a recorder whose construction failed is logged and never used (no
\* row, no status line, no finalize), and the mission runs to its end all
\* the same: the phases, the actuator commands and the outcome class of a
\* finished mission are determined by the telemetry alone, by one and the
\* same function whether the recorder works or not, and those of an
\* unfinished one are a prefix of them.
C19_RecorderFailureHarmless ==
    /\ recorder = "failed" =>
        /\ "recorder_error" \in logged
        /\ "recorder_ready" \notin logged
        /\ rows = <<>> /\ dataErrors = 0 /\ statuses = <<>> /\ closes = 0
    /\ C1_IsPrefix(phases, C19_Phases)
    /\ C1_IsPrefix(acts, C19_Acts)
    /\ pc = "done" =>
        /\ recorder \in {"ok", "failed"}
        /\ phases = C19_Phases
        /\ acts = C19_Acts
        /\ Len(outcomes) = 1
        /\ C2_Table(propLowSeen, final_peri, outcomes[1])

\* A whole mission flown without the recorder.
C19_Witness ==
    /\ pc = "done"
    /\ recorder = "failed"
    /\ steers >= 1
    /\ panelsFed.ok >= 1
    /\ outcomes = <<"success_high">>

\* The last command among cmds in the first n actuator commands, "" if none.
RECURSIVE C20_Last(_, _)
C20_Last(cmds, n) ==
    IF n = 0 THEN ""
    ELSE IF acts[n] \in cmds THEN acts[n]
    ELSE C20_Last(cmds, n - 1)

\* C20: SAS and the attitude hold are never engaged together, neither in a
\* state nor after any actuator command (no step issues more than three, so
\* the last three of each state cover them all): SAS is off before the hold is
\* first engaged and throughout PoweredAscentToTargetApoapsis, where the
\* hold is re-engaged; the hold is off before 10,000 m and from the entry
\* of CoastToApoapsis on, where SAS comes back for the burn.
C20_SasXorHold ==
    /\ [](/\ ~(sas /\ apEngaged)
          /\ \A n \in (Len(acts) - 2)..Len(acts) :
                n >= 1 =>
                    ~(/\ C20_Last({"sas_on", "sas_off"}, n) = "sas_on"
                      /\ C20_Last({"ap_engage", "ap_disengage"}, n) = "ap_engage")
          /\ Len(phases) <= 2 => ~apEngaged
          /\ Phase = "PoweredAscentToTargetApoapsis" => ~sas
          /\ Len(phases) >= 4 => ~apEngaged
          /\ Len(phases) >= 5 => sas)
    /\ [][Len(acts') <= Len(acts) + 3]_vars

\* The burn has begun with SAS on, after an ascent that re-engaged the hold.
C20_Witness ==
    /\ Phase = "CircularizationBurn"
    /\ steers >= 1
    /\ sas
    /\ ~apEngaged
    /\ C20_Last({"ap_engage", "ap_disengage"}, Len(acts)) = "ap_disengage"

=============================================================================
